---- MODULE Spec2Model ----
(***************************************************************************)
(* Model of the post page of yzhx.xyz: PostPage (src/app/layout.tsx)       *)
(* resolves a slug against the static post index, reads the view count of  *)
(* the post from the external key-value store and renders Header and       *)
(* ReportView; the client then records the view with an increment.         *)
(*                                                                         *)
(* Optional values (a TypeScript value that may be null or undefined) are  *)
(* sequences of length at most one: <<>> is null/undefined, <<v>> is v.    *)
(***************************************************************************)
EXTENDS Integers, Sequences, FiniteSets, TLC

\* ---------------------------------------------------------------- bounds
\* Number of page-view requests in one behaviour.
NumRequests == 2
\* Largest number of posts in the static index.
MaxPosts == 2
\* Number of Header components mounted in one behaviour.
NumHeaders == 2
\* Largest number of intersection-observer callbacks one Header receives.
MaxCallbacks == 2
\* Largest number of entries one callback is handed.
MaxEntries == 2

Requests == 1..NumRequests
Headers == 1..NumHeaders

\* The entry lists a callback may be handed: IntersectionObserverEntry
\* reduced to its isIntersecting field, at least one entry.
EntryLists ==
  UNION {[1..n -> [isIntersecting : BOOLEAN]] : n \in 1..MaxEntries}
\* Slugs of the posts of an index. An index need not hold every one of them,
\* so a requested slug may be absent, present and published, or present and
\* unpublished.
Slugs == {"contract-creation", "does-not-exist"}

\* Slugs a request may carry: those of the posts and one that differs from
\* a post's slug only in the case of its letters.
ReqSlugs == Slugs \cup {"Contract-Creation"}

\* A post record of the static index (contentlayer's allPosts), reduced to
\* the two fields PostPage and generateStaticParams read.
PostRecords == [slug : Slugs, published : BOOLEAN]

\* All indexes of at most MaxPosts posts.
Indexes == UNION {[1..n -> PostRecords] : n \in 0..MaxPosts}

\* ------------------------------------------------------- pure functions
\* Array.prototype.join: the parts separated by sep.
RECURSIVE join(_, _)
join(parts, sep) ==
  IF Len(parts) = 0 THEN ""
  ELSE IF Len(parts) = 1 THEN parts[1]
  ELSE parts[1] \o sep \o join(Tail(parts), sep)

\* KeyOf as it would be if the slug were left out of the joined parts.
KeyOfNoSlug(s) == join(<<"pageviews", "posts">>, ":")

\* The store key of a slug: ["pageviews", "posts", slug].join(":").
KeyOf(s) == join(<<"pageviews", "posts", s>>, ":")

\* Find as it would be if resolution re-checked the published flag.
FindPublished(posts, s) ==
  IF \E i \in 1..Len(posts) : posts[i].slug = s /\ posts[i].published
  THEN CHOOSE i \in 1..Len(posts) :
         /\ posts[i].slug = s /\ posts[i].published
         /\ \A j \in 1..(i - 1) : ~(posts[j].slug = s /\ posts[j].published)
  ELSE 0

\* Find as it would be if an unmatched slug fell back to the first post.
FindOrFirst(posts, s) ==
  IF \E i \in 1..Len(posts) : posts[i].slug = s
  THEN CHOOSE i \in 1..Len(posts) :
         /\ posts[i].slug = s
         /\ \A j \in 1..(i - 1) : posts[j].slug # s
  ELSE IF Len(posts) > 0 THEN 1 ELSE 0

\* String.prototype.toLowerCase on the slugs of the model.
toLowerCase(s) == IF s = "Contract-Creation" THEN "contract-creation" ELSE s

\* Find as it would be if slugs were compared without regard to case.
FindIgnoreCase(posts, s) ==
  IF \E i \in 1..Len(posts) : toLowerCase(posts[i].slug) = toLowerCase(s)
  THEN CHOOSE i \in 1..Len(posts) :
         /\ toLowerCase(posts[i].slug) = toLowerCase(s)
         /\ \A j \in 1..(i - 1) : toLowerCase(posts[j].slug) # toLowerCase(s)
  ELSE 0

\* allPosts.find((post) => post.slug === slug): the position of the first
\* post whose slug equals s, 0 when there is none (undefined).
Find(posts, s) ==
  IF \E i \in 1..Len(posts) : posts[i].slug = s
  THEN CHOOSE i \in 1..Len(posts) :
         /\ posts[i].slug = s
         /\ \A j \in 1..(i - 1) : posts[j].slug # s
  ELSE 0

\* generateStaticParams as it would be without the filter on published.
generateStaticParamsAll(posts) ==
  [k \in 1..Len(posts) |-> [slug |-> posts[k].slug]]

\* generateStaticParams: allPosts.filter((p) => p.published)
\*                               .map((p) => ({ slug: p.slug })).
generateStaticParams(posts) ==
  LET pub == SelectSeq(posts, LAMBDA p : p.published)
  IN  [k \in 1..Len(pub) |-> [slug |-> pub[k].slug]]

\* redis.get<number>(key): the stored value, null when the key is absent.
RedisGet(st, key) == IF key \in DOMAIN st THEN <<st[key]>> ELSE <<>>

\* Coalesce as it would be if a null response were shown as the marker -1.
CoalesceMinusOne(resp, dflt) == IF resp = <<>> THEN 0 - 1 ELSE resp[1]

\* Coalesce as it would be if a null response counted the current view.
CoalesceOne(resp, dflt) == IF resp = <<>> THEN dflt + 1 ELSE resp[1]

\* The nullish coalescing of line 113: resp ?? dflt.
Coalesce(resp, dflt) == IF resp = <<>> THEN dflt ELSE resp[1]

\* INCR key: adds one to the integer at key, creating it at 1 when absent.
RedisIncr(st, key) ==
  IF key \in DOMAIN st THEN [st EXCEPT ![key] = @ + 1] ELSE st @@ (key :> 1)

\* The stored count of a key as a number (0 for an absent key); used by the
\* properties only.
Count(st, key) == IF key \in DOMAIN st THEN st[key] ELSE 0

\* ----------------------------------------------------------------- state
VARIABLES
  allPosts,    \* the static post index (contentlayer/generated)
  staticParams,\* the result of generateStaticParams at build (optional)
  store,       \* the external key-value store: key -> integer
  pc,          \* per request: idle, awaitGet, rendered, notFound, error
  slug,        \* per request: params.slug (optional)
  post,        \* per request: position in allPosts of the resolved post, 0 if none
  views,       \* per request: the views value handed to Header (optional)
  report,      \* per request: the slug handed to ReportView (optional)
  incr,        \* per request: the view's increment: none, pending, done, lost
  fromCache,   \* per request: served from a cached render (revalidate = 60)
  reads,       \* history: number of store GETs the request issued
  absentAtRead,\* history: the key was absent when the request's GET was served
  getFailed,   \* history: the request's GET ended in a store error
  okIncr,      \* history: per slug, number of increments that succeeded
  incrAtRead,  \* history: okIncr of the request's slug when its GET was served
  isIntersecting, \* per Header: the isIntersecting state of useState(true)
  phase,       \* per Header: created, mounted, unmounted
  observing,   \* per Header: its IntersectionObserver observes the header
  lastEntry,   \* history: isIntersecting of the first entry of the latest callback
  nCallbacks   \* history: number of callbacks the Header received

hist == <<reads, absentAtRead, getFailed, okIncr, incrAtRead>>

\* The state of the Header components.
hdr == <<isIntersecting, phase, observing, lastEntry, nCallbacks>>

\* The state of the post pages and the store.
page == <<allPosts, staticParams, store, pc, slug, post, views, report, incr,
          fromCache, hist>>

vars == <<page, hdr>>

Init ==
  /\ allPosts \in Indexes
  /\ staticParams = <<>>
  /\ store = <<>>
  /\ pc = [r \in Requests |-> "idle"]
  /\ slug = [r \in Requests |-> <<>>]
  /\ post = [r \in Requests |-> 0]
  /\ views = [r \in Requests |-> <<>>]
  /\ report = [r \in Requests |-> <<>>]
  /\ incr = [r \in Requests |-> "none"]
  /\ fromCache = [r \in Requests |-> FALSE]
  /\ reads = [r \in Requests |-> 0]
  /\ absentAtRead = [r \in Requests |-> FALSE]
  /\ getFailed = [r \in Requests |-> FALSE]
  /\ okIncr = [s \in ReqSlugs |-> 0]
  /\ incrAtRead = [r \in Requests |-> 0]
  /\ isIntersecting = [h \in Headers |-> TRUE]
  /\ phase = [h \in Headers |-> "created"]
  /\ observing = [h \in Headers |-> FALSE]
  /\ lastEntry = [h \in Headers |-> <<>>]
  /\ nCallbacks = [h \in Headers |-> 0]

\* --------------------------------------------------------------- actions
\* PostPage as it would be if the view were recorded on the server before
\* the count is read, without awaiting it.
PostPageIncrFirst(r, s) ==
  /\ pc[r] = "idle"
  /\ slug' = [slug EXCEPT ![r] = <<s>>]
  /\ LET i == Find(allPosts, s) IN
       IF i = 0
       THEN /\ pc' = [pc EXCEPT ![r] = "notFound"]
            /\ UNCHANGED <<post, reads, incr, report>>
       ELSE /\ pc' = [pc EXCEPT ![r] = "awaitGet"]
            /\ post' = [post EXCEPT ![r] = i]
            /\ reads' = [reads EXCEPT ![r] = @ + 1]
            /\ incr' = [incr EXCEPT ![r] = "pending"]
            /\ report' = [report EXCEPT ![r] = <<allPosts[i].slug>>]
  /\ UNCHANGED <<hdr, staticParams, allPosts, store, views, fromCache,
                 absentAtRead, getFailed, okIncr, incrAtRead>>

\* PostPage as it would be if the count were requested before the post is
\* looked up.
PostPageReadFirst(r, s) ==
  /\ pc[r] = "idle"
  /\ slug' = [slug EXCEPT ![r] = <<s>>]
  /\ reads' = [reads EXCEPT ![r] = @ + 1]
  /\ LET i == Find(allPosts, s) IN
       IF i = 0
       THEN /\ pc' = [pc EXCEPT ![r] = "notFound"]
            /\ UNCHANGED post
       ELSE /\ pc' = [pc EXCEPT ![r] = "awaitGet"]
            /\ post' = [post EXCEPT ![r] = i]
  /\ UNCHANGED <<hdr, staticParams, allPosts, store, views, report, incr, fromCache,
                 absentAtRead, getFailed, okIncr, incrAtRead>>

\* PostPage up to its await: resolve the slug, signal not-found when no post
\* matches, otherwise issue the GET of the post's key.
PostPage(r, s) ==
  /\ pc[r] = "idle"
  /\ slug' = [slug EXCEPT ![r] = <<s>>]
  /\ LET i == Find(allPosts, s) IN
       IF i = 0
       THEN /\ pc' = [pc EXCEPT ![r] = "notFound"]
            /\ UNCHANGED <<post, reads>>
       ELSE /\ pc' = [pc EXCEPT ![r] = "awaitGet"]
            /\ post' = [post EXCEPT ![r] = i]
            /\ reads' = [reads EXCEPT ![r] = @ + 1]
  /\ UNCHANGED <<hdr, staticParams, allPosts, store, views, report, incr, fromCache,
                 absentAtRead, getFailed, okIncr, incrAtRead>>

\* GetOk as it would be if the count were read with GETDEL instead of GET.
GetOkGetDel(r) ==
  /\ pc[r] = "awaitGet"
  /\ LET key == KeyOf(slug[r][1]) IN
       /\ views' = [views EXCEPT ![r] = <<Coalesce(RedisGet(store, key), 0)>>]
       /\ absentAtRead' = [absentAtRead EXCEPT ![r] = key \notin DOMAIN store]
       /\ store' = [k \in DOMAIN store \ {key} |-> store[k]]
  /\ report' = [report EXCEPT ![r] = <<allPosts[post[r]].slug>>]
  /\ incrAtRead' = [incrAtRead EXCEPT ![r] = okIncr[slug[r][1]]]
  /\ pc' = [pc EXCEPT ![r] = "rendered"]
  /\ UNCHANGED <<hdr, staticParams, allPosts, slug, post, incr, fromCache, reads,
                 getFailed, okIncr>>

\* GetOk as it would be if ReportView were handed the slug of the first post
\* of the index instead of the resolved post's.
GetOkReportFirst(r) ==
  /\ pc[r] = "awaitGet"
  /\ LET key == KeyOf(slug[r][1]) IN
       /\ views' = [views EXCEPT ![r] = <<Coalesce(RedisGet(store, key), 0)>>]
       /\ absentAtRead' = [absentAtRead EXCEPT ![r] = key \notin DOMAIN store]
  /\ report' = [report EXCEPT ![r] = <<allPosts[1].slug>>]
  /\ incrAtRead' = [incrAtRead EXCEPT ![r] = okIncr[slug[r][1]]]
  /\ pc' = [pc EXCEPT ![r] = "rendered"]
  /\ UNCHANGED <<hdr, staticParams, allPosts, store, slug, post, incr, fromCache, reads,
                 getFailed, okIncr>>

\* GetOk as it would be if the count were taken from INCR's reply instead
\* of GET's (the post-increment value).
GetOkIncr(r) ==
  /\ pc[r] = "awaitGet"
  /\ LET key == KeyOf(slug[r][1]) IN
       /\ store' = RedisIncr(store, key)
       /\ views' = [views EXCEPT ![r] = <<store'[key]>>]
       /\ absentAtRead' = [absentAtRead EXCEPT ![r] = key \notin DOMAIN store]
  /\ report' = [report EXCEPT ![r] = <<allPosts[post[r]].slug>>]
  /\ incrAtRead' = [incrAtRead EXCEPT ![r] = okIncr[slug[r][1]]]
  /\ pc' = [pc EXCEPT ![r] = "rendered"]
  /\ UNCHANGED <<hdr, staticParams, allPosts, slug, post, incr, fromCache, reads,
                 getFailed, okIncr>>

\* GetOk as it would be if PostPage awaited the view's increment before it
\* returned the page.
GetOkAfterIncr(r) ==
  /\ pc[r] = "awaitGet"
  /\ incr[r] = "done"
  /\ LET key == KeyOf(slug[r][1]) IN
       /\ views' = [views EXCEPT ![r] = <<Coalesce(RedisGet(store, key), 0)>>]
       /\ absentAtRead' = [absentAtRead EXCEPT ![r] = key \notin DOMAIN store]
  /\ report' = [report EXCEPT ![r] = <<allPosts[post[r]].slug>>]
  /\ incrAtRead' = [incrAtRead EXCEPT ![r] = okIncr[slug[r][1]]]
  /\ pc' = [pc EXCEPT ![r] = "rendered"]
  /\ UNCHANGED <<hdr, staticParams, allPosts, store, slug, post, incr, fromCache, reads,
                 getFailed, okIncr>>

\* GetOk as it would be if the page counted the current view in the value
\* it hands to Header.
GetOkPlusOne(r) ==
  /\ pc[r] = "awaitGet"
  /\ LET key == KeyOf(slug[r][1]) IN
       /\ views' = [views EXCEPT ![r] = <<Coalesce(RedisGet(store, key), 0) + 1>>]
       /\ absentAtRead' = [absentAtRead EXCEPT ![r] = key \notin DOMAIN store]
  /\ report' = [report EXCEPT ![r] = <<allPosts[post[r]].slug>>]
  /\ incrAtRead' = [incrAtRead EXCEPT ![r] = okIncr[slug[r][1]]]
  /\ pc' = [pc EXCEPT ![r] = "rendered"]
  /\ UNCHANGED <<hdr, staticParams, allPosts, store, slug, post, incr, fromCache,
                 reads, getFailed, okIncr>>

\* The store serves the GET and PostPage resumes: views = response ?? 0,
\* and the page is rendered with Header(post, views) and
\* ReportView(post.slug).
GetOk(r) ==
  /\ pc[r] = "awaitGet"
  /\ LET key == KeyOf(slug[r][1]) IN
       /\ views' = [views EXCEPT ![r] = <<Coalesce(RedisGet(store, key), 0)>>]
       /\ absentAtRead' = [absentAtRead EXCEPT ![r] = key \notin DOMAIN store]
  /\ report' = [report EXCEPT ![r] = <<allPosts[post[r]].slug>>]
  /\ incrAtRead' = [incrAtRead EXCEPT ![r] = okIncr[slug[r][1]]]
  /\ pc' = [pc EXCEPT ![r] = "rendered"]
  /\ UNCHANGED <<hdr, staticParams, allPosts, store, slug, post, incr, fromCache, reads,
                 getFailed, okIncr>>

\* The store answers the GET with an error, or cannot be reached: the
\* awaited promise rejects, nothing in PostPage catches it, and the render
\* ends in a server error.
GetErr(r) ==
  /\ pc[r] = "awaitGet"
  /\ pc' = [pc EXCEPT ![r] = "error"]
  /\ getFailed' = [getFailed EXCEPT ![r] = TRUE]
  /\ UNCHANGED <<hdr, staticParams, allPosts, store, slug, post, views, report, incr, fromCache,
                 reads, absentAtRead, okIncr, incrAtRead>>

\* revalidate = 60: a request is answered with the output of an earlier
\* render of the same page, without running PostPage.
ServeCached(r, q) ==
  /\ pc[r] = "idle"
  /\ pc[q] = "rendered"
  /\ ~fromCache[q]
  /\ pc' = [pc EXCEPT ![r] = "rendered"]
  /\ slug' = [slug EXCEPT ![r] = slug[q]]
  /\ post' = [post EXCEPT ![r] = post[q]]
  /\ views' = [views EXCEPT ![r] = views[q]]
  /\ report' = [report EXCEPT ![r] = report[q]]
  /\ fromCache' = [fromCache EXCEPT ![r] = TRUE]
  /\ UNCHANGED <<hdr, staticParams, allPosts, store, incr, hist>>

\* The client mounts ReportView of a displayed page: recordView is issued.
ReportView(r) ==
  /\ pc[r] = "rendered"
  /\ incr[r] = "none"
  /\ incr' = [incr EXCEPT ![r] = "pending"]
  /\ UNCHANGED <<hdr, staticParams, allPosts, store, pc, slug, post, views, report, fromCache,
                 hist>>

\* recordView succeeds: the store applies INCR to the key of the slug.
IncrOk(r) ==
  /\ incr[r] = "pending"
  /\ store' = RedisIncr(store, KeyOf(report[r][1]))
  /\ incr' = [incr EXCEPT ![r] = "done"]
  /\ okIncr' = [okIncr EXCEPT ![slug[r][1]] = @ + 1]
  /\ UNCHANGED <<hdr, staticParams, allPosts, pc, slug, post, views, report, fromCache, reads,
                 absentAtRead, getFailed, incrAtRead>>

\* IncrErr as it would be if the failure were surfaced to the page.
IncrErrSurfaced(r) ==
  /\ incr[r] = "pending"
  /\ incr' = [incr EXCEPT ![r] = "lost"]
  /\ pc' = [pc EXCEPT ![r] = "error"]
  /\ UNCHANGED <<hdr, staticParams, allPosts, store, slug, post, views, report, fromCache,
                 hist>>

\* The build calls generateStaticParams on the index.
GenerateStaticParams ==
  /\ staticParams = <<>>
  /\ staticParams' = <<generateStaticParams(allPosts)>>
  /\ UNCHANGED <<hdr, allPosts, store, pc, slug, post, views, report, incr,
                 fromCache, hist>>

\* recordView fails: the store is unreachable or answers with an error.
IncrErr(r) ==
  /\ incr[r] = "pending"
  /\ incr' = [incr EXCEPT ![r] = "lost"]
  /\ UNCHANGED <<hdr, staticParams, allPosts, store, pc, slug, post, views, report, fromCache,
                 hist>>

Next ==
  \/ \E r \in Requests, s \in ReqSlugs : PostPage(r, s)
  \/ \E r \in Requests : GetOk(r)
  \/ \E r \in Requests : GetErr(r)
  \/ \E r, q \in Requests : ServeCached(r, q)
  \/ \E r \in Requests : ReportView(r)
  \/ \E r \in Requests : IncrOk(r)
  \/ \E r \in Requests : IncrErr(r)
  \/ GenerateStaticParams

Spec == Init /\ [][Next]_vars

\* ---------------------------------------------------------------- Header
\* HeaderUnmount as it would be if the effect returned no cleanup.
HeaderUnmountNoDisconnect(h) ==
  /\ phase[h] = "mounted"
  /\ phase' = [phase EXCEPT ![h] = "unmounted"]
  /\ UNCHANGED <<page, isIntersecting, observing, lastEntry, nCallbacks>>

\* The component mounts and its effect runs: ref.current is the header
\* element, an IntersectionObserver is created and observes it.
HeaderMount(h) ==
  /\ phase[h] = "created"
  /\ phase' = [phase EXCEPT ![h] = "mounted"]
  /\ observing' = [observing EXCEPT ![h] = TRUE]
  /\ UNCHANGED <<page, isIntersecting, lastEntry, nCallbacks>>

\* ObserverCallback as it would be if it took the last entry of the list.
ObserverCallbackLast(h, entries) ==
  /\ observing[h]
  /\ nCallbacks[h] < MaxCallbacks
  /\ isIntersecting' =
       [isIntersecting EXCEPT ![h] = entries[Len(entries)].isIntersecting]
  /\ lastEntry' = [lastEntry EXCEPT ![h] = <<entries[1].isIntersecting>>]
  /\ nCallbacks' = [nCallbacks EXCEPT ![h] = @ + 1]
  /\ UNCHANGED <<page, phase, observing>>

\* The observer delivers entries to the callback
\* ([entry]) => setIntersecting(entry.isIntersecting).
ObserverCallback(h, entries) ==
  /\ observing[h]
  /\ nCallbacks[h] < MaxCallbacks
  /\ isIntersecting' = [isIntersecting EXCEPT ![h] = entries[1].isIntersecting]
  /\ lastEntry' = [lastEntry EXCEPT ![h] = <<entries[1].isIntersecting>>]
  /\ nCallbacks' = [nCallbacks EXCEPT ![h] = @ + 1]
  /\ UNCHANGED <<page, phase, observing>>

\* The component unmounts and the effect's cleanup runs:
\* observer.disconnect().
HeaderUnmount(h) ==
  /\ phase[h] = "mounted"
  /\ phase' = [phase EXCEPT ![h] = "unmounted"]
  /\ observing' = [observing EXCEPT ![h] = FALSE]
  /\ UNCHANGED <<page, isIntersecting, lastEntry, nCallbacks>>

NextHeader ==
  \/ \E h \in Headers : HeaderMount(h)
  \/ \E h \in Headers, entries \in EntryLists : ObserverCallback(h, entries)
  \/ \E h \in Headers : HeaderUnmount(h)

\* The Header components alone: their state neither reads nor writes the
\* state of the pages and the store.
SpecHeader == Init /\ [][NextHeader]_vars

TypeOK ==
  /\ allPosts \in Indexes
  /\ \A k \in DOMAIN store : store[k] \in Nat
  /\ pc \in [Requests -> {"idle", "awaitGet", "rendered", "notFound", "error"}]
  /\ incr \in [Requests -> {"none", "pending", "done", "lost"}]

\* ---------------------------------------------------------------- claims
\* The request has been resolved by PostPage itself (not served from cache).
Resolved(r) == pc[r] # "idle" /\ ~fromCache[r]

\* Some post of the index has slug s.
InIndex(s) == \E i \in 1..Len(allPosts) : allPosts[i].slug = s

\* Some published post of the index has slug s.
InIndexPublished(s) ==
  \E i \in 1..Len(allPosts) : allPosts[i].slug = s /\ allPosts[i].published

\* C1 as stated: PostPage resolves a slug to the matching post exactly when
\* the index holds a published post of that slug, and signals not-found for
\* every other slug (absent, or present but unpublished).
C1_PublishedOnly ==
  \A r \in Requests :
    Resolved(r) =>
      IF InIndexPublished(slug[r][1])
      THEN /\ post[r] # 0
           /\ allPosts[post[r]].slug = slug[r][1]
           /\ pc[r] # "notFound"
      ELSE pc[r] = "notFound" /\ post[r] = 0

\* C1 amended: PostPage resolves a slug to a post of that slug exactly when
\* the index holds a post of that slug, published or not, and signals
\* not-found for every slug absent from the index.
C1_ResolveBySlug ==
  \A r \in Requests :
    Resolved(r) =>
      IF InIndex(slug[r][1])
      THEN /\ post[r] # 0
           /\ allPosts[post[r]].slug = slug[r][1]
           /\ pc[r] # "notFound"
      ELSE pc[r] = "notFound" /\ post[r] = 0

\* C1 witness: one request resolved to an unpublished post and rendered it,
\* another was answered not-found.
C1_Witness ==
  \E r, q \in Requests :
    /\ pc[r] = "rendered" /\ ~fromCache[r]
    /\ post[r] # 0 /\ ~allPosts[post[r]].published
    /\ ~InIndexPublished(slug[r][1])
    /\ pc[q] = "notFound"

\* C2 as stated: a render whose GET ended in a store error still completes
\* and displays 0 views.
C2_StoreErrorShowsZero ==
  \A r \in Requests :
    getFailed[r] => pc[r] = "rendered" /\ views[r] = <<0>>

\* C3: a render whose GET found the key absent hands views = 0 to Header.
C3_AbsentKeyIsZero ==
  \A r \in Requests :
    (pc[r] = "rendered" /\ absentAtRead[r]) => views[r] = <<0>>

\* C3 witness: a render completed after reading an absent key.
C3_Witness ==
  \E r \in Requests :
    pc[r] = "rendered" /\ absentAtRead[r] /\ reads[r] = 1

\* C4: of two reads of the same slug with exactly one successful recordView
\* of that slug between them, the later returns the earlier's value plus 1;
\* and after the first successful recordView of a slug its key exists with
\* value 1.
C4_ReadAfterOneIncrement ==
  /\ \A q, r \in Requests :
       ( /\ pc[q] = "rendered" /\ ~fromCache[q]
         /\ pc[r] = "rendered" /\ ~fromCache[r]
         /\ slug[q] = slug[r]
         /\ incrAtRead[r] = incrAtRead[q] + 1 )
       => views[r][1] = views[q][1] + 1
  /\ \A s \in Slugs :
       okIncr[s] = 1 => RedisGet(store, KeyOf(s)) = <<1>>

\* C4 witness: a read of an absent key, then one successful recordView, then
\* a second read of the same slug.
C4_Witness ==
  \E q, r \in Requests :
    /\ pc[q] = "rendered" /\ ~fromCache[q] /\ absentAtRead[q]
    /\ pc[r] = "rendered" /\ ~fromCache[r]
    /\ slug[q] = slug[r]
    /\ incrAtRead[q] = 0 /\ incrAtRead[r] = 1

\* C5: no step decreases a stored count or deletes an existing key.
C5_Monotonic ==
  [][\A k \in DOMAIN store : k \in DOMAIN store' /\ store'[k] >= store[k]]_vars

\* C5 witness: a key was incremented twice by concurrent views, one render
\* of which was read while the other view's increment was already applied.
C5_Witness ==
  \E k \in DOMAIN store, r \in Requests :
    store[k] = 2 /\ pc[r] = "rendered" /\ views[r] = <<1>>

\* C6: the stored count of a slug equals the number of recordView calls of
\* views of that slug that succeeded: none is lost, none applied twice.
C6_ExactlyOncePerView ==
  \A s \in Slugs :
    /\ Count(store, KeyOf(s)) = okIncr[s]
    /\ okIncr[s] = Cardinality({r \in Requests : slug[r] = <<s>> /\ incr[r] = "done"})

\* C6 witness: two views of one slug, rendered before either increment,
\* both recorded.
C6_Witness ==
  \E s \in Slugs :
    /\ okIncr[s] = NumRequests
    /\ \A r \in Requests : slug[r] = <<s>> /\ views[r] = <<0>> /\ incr[r] = "done"

\* C7: a request whose slug matches no post of the index ends not-found: it
\* is neither rendered nor a server error, and no post is resolved for it.
C7_UnmatchedIsNotFound ==
  \A r \in Requests :
    (slug[r] # <<>> /\ ~InIndex(slug[r][1])) =>
      /\ pc[r] = "notFound"
      /\ post[r] = 0
      /\ views[r] = <<>>

\* C7 witness: the index holds a post, and a request for another slug was
\* answered not-found.
C7_Witness ==
  \E r \in Requests :
    /\ Len(allPosts) > 0
    /\ slug[r] # <<>> /\ ~InIndex(slug[r][1])
    /\ pc[r] = "notFound"

\* The views of slug s whose increment is in the given state.
ViewsIn(s, state) == {r \in Requests : slug[r] = <<s>> /\ incr[r] = state}

\* C8: a failed recordView is lost for good: the step that fails leaves the
\* store and the page's outcome unchanged, a lost increment stays lost, the
\* page stays rendered, and the stored count never includes a lost one.
C8_FailedIncrementLost ==
  /\ [][\A r \in Requests :
          /\ (incr[r] = "pending" /\ incr'[r] = "lost") =>
                (store' = store /\ pc'[r] = pc[r] /\ views'[r] = views[r])
          /\ incr[r] = "lost" => incr'[r] = "lost"]_vars
  /\ [](\A r \in Requests : incr[r] = "lost" => pc[r] = "rendered")
  /\ [](\A s \in Slugs :
          Count(store, KeyOf(s)) = Cardinality(ViewsIn(s, "done")))

\* C8 witness: of two views of one slug one increment failed and the other
\* succeeded afterwards, and the count is 1.
C8_Witness ==
  \E s \in Slugs :
    /\ ViewsIn(s, "lost") # {}
    /\ ViewsIn(s, "done") # {}
    /\ Count(store, KeyOf(s)) = 1

\* A step of a server-side render: some request's position changes.
RenderStep == \E r \in Requests : pc'[r] # pc[r]

\* C9: a render is read-only: its steps leave the store and the index
\* unchanged, and a completed server-side render has issued exactly one GET.
C9_RenderReadOnly ==
  /\ [][RenderStep => (store' = store /\ allPosts' = allPosts)]_vars
  /\ [](\A r \in Requests :
          (pc[r] = "rendered" /\ ~fromCache[r]) => reads[r] = 1)

\* C9 witness: every request was rendered by the server and no view was
\* recorded: the store is still empty.
C9_Witness ==
  /\ \A r \in Requests : pc[r] = "rendered" /\ ~fromCache[r] /\ reads[r] = 1
  /\ DOMAIN store = {}

\* C10: a view's increment is issued only after its count was read and the
\* page rendered, and the count displayed to a view counts only successful
\* increments of other views: it never includes the view's own.
C10_ReadBeforeOwnIncrement ==
  \A r \in Requests :
    /\ incr[r] # "none" => (pc[r] = "rendered" /\ views[r] # <<>>)
    /\ views[r] # <<>> =>
         views[r][1] + Cardinality({r} \cap ViewsIn(slug[r][1], "done"))
           <= okIncr[slug[r][1]]

\* C10 witness: a view displayed 1 (another view's increment) and its own
\* increment was then applied, making the stored count 2.
C10_Witness ==
  \E r \in Requests :
    /\ views[r] = <<1>> /\ incr[r] = "done"
    /\ Count(store, KeyOf(slug[r][1])) = 2

\* C11: display does not wait on the increment: a render that has issued its
\* single read can complete as soon as the store serves it, with no
\* increment issued yet, and a rendered page stays rendered whatever its
\* increment does afterwards.
C11_RenderNotGatedByIncrement ==
  /\ [](\A r \in Requests :
          pc[r] = "awaitGet" =>
            (incr[r] = "none" /\ reads[r] = 1 /\ ENABLED GetOk(r)))
  /\ [][\A r \in Requests :
          /\ (pc[r] = "awaitGet" /\ pc'[r] = "rendered") => incr'[r] = "none"
          /\ pc[r] = "rendered" => pc'[r] = "rendered"]_vars

\* C11 witness: two rendered pages, the increment of one failed and the
\* increment of the other is still pending.
C11_Witness ==
  \E q, r \in Requests :
    /\ pc[q] = "rendered" /\ ~fromCache[q] /\ incr[q] = "lost"
    /\ pc[r] = "rendered" /\ ~fromCache[r] /\ incr[r] = "pending"

\* The positions of the published posts of the index.
PublishedAt == {i \in 1..Len(allPosts) : allPosts[i].published}

\* The position of the k-th published post in index order.
KthPublished(k) ==
  CHOOSE i \in PublishedAt : Cardinality({j \in PublishedAt : j <= i}) = k

\* C12: generateStaticParams returns one {slug} entry per published post, in
\* index order, and nothing for an unpublished post.
C12_StaticParamsArePublished ==
  staticParams # <<>> =>
    LET ps == staticParams[1] IN
      /\ Len(ps) = Cardinality(PublishedAt)
      /\ \A k \in 1..Len(ps) : ps[k] = [slug |-> allPosts[KthPublished(k)].slug]

\* C12 witness: the index holds an unpublished post followed by a published
\* post of another slug, and the result is the single entry of the latter.
C12_Witness ==
  /\ staticParams # <<>>
  /\ Len(allPosts) = 2
  /\ ~allPosts[1].published /\ allPosts[2].published
  /\ allPosts[1].slug # allPosts[2].slug
  /\ staticParams[1] = <<[slug |-> allPosts[2].slug]>>

\* The positions of the posts whose slug is exactly s.
Matches(s) == {i \in 1..Len(allPosts) : allPosts[i].slug = s}

\* C13: PostPage resolves by exact equality of slugs: when some post has the
\* requested slug, the resolved post is the first such post in index order,
\* published or not; not-found is signalled only when no post has it.
C13_ExactFirstMatch ==
  \A r \in Requests :
    Resolved(r) =>
      IF Matches(slug[r][1]) # {}
      THEN /\ post[r] \in Matches(slug[r][1])
           /\ \A i \in Matches(slug[r][1]) : post[r] <= i
           /\ pc[r] # "notFound"
      ELSE pc[r] = "notFound" /\ post[r] = 0

\* C13 witness: the index holds two posts of one slug, the first of them
\* unpublished; one request resolved to the first, and a request for the
\* same slug in another case was answered not-found.
C13_Witness ==
  \E q, r \in Requests :
    /\ Len(allPosts) = 2
    /\ allPosts[1].slug = allPosts[2].slug
    /\ ~allPosts[1].published /\ allPosts[2].published
    /\ pc[q] = "rendered" /\ ~fromCache[q] /\ post[q] = 1
    /\ slug[r] # <<>> /\ slug[r] # slug[q]
    /\ toLowerCase(slug[r][1]) = slug[q][1]
    /\ pc[r] = "notFound"

\* The key of slug s as the store names it.
StoreKey(s) == "pageviews:posts:" \o s

\* C14: a successful recordView of a view of slug s adds one at the key
\* pageviews:posts:s and changes no other key, and distinct slugs have
\* distinct keys.
C14_OnlyOwnKeyChanges ==
  /\ [][\A r \in Requests :
          (incr[r] = "pending" /\ incr'[r] = "done") =>
            /\ Count(store', StoreKey(slug[r][1]))
                  = Count(store, StoreKey(slug[r][1])) + 1
            /\ \A k \in (DOMAIN store \cup DOMAIN store') \ {StoreKey(slug[r][1])} :
                  RedisGet(store', k) = RedisGet(store, k)]_vars
  /\ [](\A s, u \in ReqSlugs : s # u => KeyOf(s) # KeyOf(u))

\* C14 witness: views of two slugs were both recorded, each key holds 1.
C14_Witness ==
  \E s, u \in Slugs :
    /\ s # u
    /\ RedisGet(store, StoreKey(s)) = <<1>>
    /\ RedisGet(store, StoreKey(u)) = <<1>>

\* C15: every stored view count is an integer >= 0, and so is every views
\* value PostPage hands to Header.
C15_CountsAreNaturals ==
  /\ \A k \in DOMAIN store : store[k] \in Nat
  /\ \A r \in Requests : views[r] # <<>> => views[r][1] \in Nat

\* C15 witness: one render displayed 0 for an absent key, another displayed
\* 1 after the first view was recorded.
C15_Witness ==
  \E q, r \in Requests :
    /\ pc[q] = "rendered" /\ absentAtRead[q] /\ views[q] = <<0>>
    /\ pc[r] = "rendered" /\ ~fromCache[r] /\ views[r] = <<1>>
    /\ RedisGet(store, KeyOf(slug[r][1])) = <<1>>

\* C16: whenever PostPage renders a post, the slug handed to ReportView is
\* the slug of the key it read: the count displayed and the count
\* incremented belong to the same key.
C16_ReadAndReportSameKey ==
  \A r \in Requests :
    pc[r] = "rendered" =>
      /\ report[r] = slug[r]
      /\ KeyOf(report[r][1]) = StoreKey(slug[r][1])

\* C16 witness: the index holds posts of two slugs, the second was rendered
\* and its view recorded at its own key.
C16_Witness ==
  \E r \in Requests :
    /\ Len(allPosts) = 2 /\ allPosts[1].slug # allPosts[2].slug
    /\ pc[r] = "rendered" /\ ~fromCache[r] /\ post[r] = 2
    /\ incr[r] = "done"
    /\ RedisGet(store, StoreKey(slug[r][1])) = <<1>>

\* C17: the count a page displays, freshly rendered or served from cache,
\* never exceeds the count currently stored for its slug.
C17_DisplayedNeverAboveStored ==
  \A r \in Requests :
    views[r] # <<>> => views[r][1] <= Count(store, StoreKey(slug[r][1]))

\* C17 witness: a page served from cache displays 0 while two views of its
\* slug have been recorded since the render it came from.
C17_Witness ==
  \E r \in Requests :
    /\ pc[r] = "rendered" /\ fromCache[r] /\ views[r] = <<0>>
    /\ Count(store, StoreKey(slug[r][1])) = 2

\* C18: a request whose slug matches no post issues no store operation: no
\* GET, no ReportView and no increment, and the step that answers it leaves
\* the store as it was.
C18_NotFoundTouchesNoKey ==
  /\ [](\A r \in Requests :
          (slug[r] # <<>> /\ Matches(slug[r][1]) = {}) =>
            /\ reads[r] = 0
            /\ report[r] = <<>>
            /\ incr[r] = "none"
            /\ okIncr[slug[r][1]] = 0)
  /\ [][\A r \in Requests :
          (pc[r] = "idle" /\ pc'[r] = "notFound") => store' = store]_vars

\* C18 witness: a post was viewed and recorded, and a request for a slug
\* that matches no post was answered not-found.
C18_Witness ==
  \E q, r \in Requests :
    /\ incr[q] = "done"
    /\ slug[r] # <<>> /\ Matches(slug[r][1]) = {}
    /\ pc[r] = "notFound" /\ reads[r] = 0

\* C19: isIntersecting is true until the first callback, then equals the
\* isIntersecting of the first entry of the latest callback, and no step
\* changes it once the component is unmounted.
C19_IsIntersectingFollowsObserver ==
  /\ [](\A h \in Headers :
          /\ nCallbacks[h] = 0 => (isIntersecting[h] /\ lastEntry[h] = <<>>)
          /\ nCallbacks[h] > 0 => lastEntry[h] = <<isIntersecting[h]>>)
  /\ [][\A h \in Headers :
          phase[h] = "unmounted" =>
            (isIntersecting'[h] = isIntersecting[h] /\ nCallbacks'[h] = nCallbacks[h])]_vars

\* C19 witness: a Header received two callbacks, the later one with a first
\* entry that is not intersecting, and was then unmounted.
C19_Witness ==
  \E h \in Headers :
    /\ phase[h] = "unmounted"
    /\ nCallbacks[h] = 2
    /\ ~isIntersecting[h]
====
